---- MODULE Spec2Model ----
(***************************************************************************)
(* Model of the JIRA status automation pipeline                            *)
(* (src/jira_status_automation.py): JiraClient's authentication            *)
(* negotiation (test_connection), the paginated issue search               *)
(* (fetch_tasks / _execute_search) and the pipeline run (main).            *)
(*                                                                         *)
(* A step of the model is the code that runs up to and including one       *)
(* network call; the tracker's answer to the call is the step's input.     *)
(* The tracker root base_url is an opaque deployment root, so an API root  *)
(* <base>/rest/api/<v> is named by its version v, and an identity URL      *)
(* contains 'api/3' exactly when it is built from the version 3 root.      *)
(* The identity endpoint's 200 body carries displayName and emailAddress   *)
(* (the tracker's REST contract).                                          *)
(***************************************************************************)
EXTENDS Integers, Sequences, FiniteSets, TLC

\* ---------------------------------------------------------------- bounds
\* Largest number of project scopes handed to one fetch.
MaxScopes == 2
\* Largest number of raw records the tracker serves during one fetch.
MaxRecords == 2
\* Largest number of client operations a direct user of JiraClient calls.
MaxCalls == 2
\* Largest number of tasks in a list handed to the summarizer.
MaxIssues == 2
\* Largest number of page requests of one scope that is followed; a page
\* loop that is still running after them is left there.
MaxPages == 3

\* ------------------------------------------------------ program constants
\* max_results of _execute_search.
max_results == 50
\* None of api_version / api_endpoint after __init__.
NoVersion == 0

VARIABLES
    driver,      \* what runs: "main" (the pipeline run), "client" (a direct
                 \* user of JiraClient), "parse" (the two parse functions on
                 \* one issue) or "summarize" (StatusSummarizer on one list)
    m_pc,        \* position of main / of the direct user
    rc,          \* main's return code: -1 while running, then 0 or 1
    projects,    \* the list of project scopes handed to the fetch
    jira_config, \* main's jira_config: the 'jira' section of the configuration
    config_exists, \* the configuration file existed when main loaded it
    summary_made, report_made,
    calls,       \* operations the direct user has called
    \* ---- the JiraClient object
    exists,      \* the constructor returned
    username,    \* self.username is truthy
    api_token,   \* self.api_token is truthy
    oauth_config,\* self.oauth_config is truthy
    oauth_token, \* self.oauth_token is truthy
    auth,        \* self.auth is set (username, api_token)
    hdr_auth,    \* self.headers carries Authorization
    api_version, api_endpoint,
    successful_auth_method, \* "unset" while the attribute does not exist
    jira_instance,          \* the attribute exists and holds a library session
    \* ---- the test_connection call in progress
    tc_pc,       \* "idle", "token", "loop", "done"
    tc_idx,      \* index in test_methods of the candidate to probe next
    tc_ret,      \* "none", "True", "False"
    \* ---- the fetch_tasks call in progress
    f_pc,        \* "idle", "page", "ret", "lib", "done"
    f_scope,     \* index of the project scope being fetched
    f_tasks,     \* fetch_tasks' list `tasks`
    s_tasks,     \* _execute_search's list `tasks`
    start_at,    \* _execute_search's offset
    total,       \* total of the latest page
    \* ---- observation of the run (not program state)
    probeLog,    \* identity probes of the latest negotiation, in order
    authState,   \* UNPROBED, PROBING, AUTHENTICATED, FAILED
    probed200,   \* some identity probe of the client has returned 200
    reqLog,      \* search requests of the scope in progress, in order
    constTotal,  \* the total every 200 page of the scope reported: -2 before
                 \* the first, -1 once two pages differed
    lastKind,    \* how the latest page request of the scope ended
    expected,    \* the parseable records the tracker served during the fetch
    kept,        \* the parseable records served during the fetch that no
                 \* record that is no mapping precedes in their page
    failed,      \* scopes of the fetch whose search ended in a failed request
    served,      \* raw records the tracker served during the fetch
    queried,     \* scopes of the fetch for which a search request was issued
    searched,    \* some search request was issued since Init
    \* ---- one issue handed to both parse functions
    p_raw,       \* the issue as the tracker holds it
    p_http,      \* what _parse_issue made of its JSON form
    p_lib,       \* what _parse_jira_library_issue made of its library object
    \* ---- one call of StatusSummarizer.summarize_tasks
    a_tasks,     \* the list of tasks handed to it
    a_now,       \* what datetime.now() returned inside it (-1 before the call)
    a_result,    \* what the call ended in
    a_first,     \* what the first call ended in, once a second one was made
    \* ---- one call of StatusSummarizer._categorize_status
    c_call,      \* the status name handed to it and the group it returned
    \* ---- one record handed to the field extractors
    x_rec,       \* the record, by the value at each of its nodes
    x_path,      \* the dotted path asked for
    x_default,   \* the default handed in
    x_map,       \* what safe_get_attr made of the record as nested dicts
    x_obj,       \* what safe_get_attr made of it as nested objects
    x_cfg,       \* what ConfigManager.get made of it as the loaded config
    \* ---- one request to the report API (src/main.py)
    r_req,       \* the query parameters of the request
    r_pc,        \* "idle", "received", "search", "done"
    r_status,    \* the HTTP status of the answer (0 while there is none)
    r_client,    \* create_jira_client was called
    r_sent,      \* a request was sent to the tracker
    \* ---- the bi-weekly check (src/scheduler.py, src/web_server.py)
    s_day,       \* today, as a day number; day d is weekday d % 7
    s_checked,   \* today's daily check has run
    s_target,    \* the configured weekday, 0 = monday
    s_last,      \* last_run.txt
    s_runs,      \* observation: the timestamps the checks recorded, in order
    s_check      \* observation: the latest check

vars == <<driver, m_pc, rc, projects, jira_config, config_exists, summary_made, report_made, calls,
          exists, username, api_token, oauth_config, oauth_token, auth,
              hdr_auth,
          api_version, api_endpoint, successful_auth_method, jira_instance,
          tc_pc, tc_idx, tc_ret, f_pc, f_scope, f_tasks, s_tasks, start_at,
          total, probeLog, authState, probed200, reqLog, constTotal, lastKind, expected,
          kept, failed, served, queried, searched,
          p_raw, p_http, p_lib, a_tasks, a_now, a_result, a_first, c_call,
          x_rec, x_path, x_default, x_map, x_obj, x_cfg,
          r_req, r_pc, r_status, r_client, r_sent,
          s_day, s_checked, s_target, s_last, s_runs, s_check>>

mainVars == <<driver, m_pc, rc, projects, jira_config, config_exists, summary_made,
             report_made, calls>>
credVars == <<exists, username, api_token, oauth_config, oauth_token, auth>>
sessVars == <<hdr_auth, api_version, api_endpoint, successful_auth_method,
              jira_instance>>
tcVars   == <<tc_pc, tc_idx, tc_ret>>
parseVars == <<p_raw, p_http, p_lib>>
sumVars  == <<a_tasks, a_now, a_result, a_first>>
catVars  == <<c_call>>
extVars  == <<x_rec, x_path, x_default, x_map, x_obj, x_cfg>>
repVars  == <<r_req, r_pc, r_status, r_client, r_sent>>
schedVars == <<s_day, s_checked, s_target, s_last, s_runs, s_check>>
pureVars == <<parseVars, sumVars, catVars, extVars, repVars, schedVars>>
pipeVars == <<driver, m_pc, rc, projects, jira_config, config_exists, summary_made,
              report_made, calls,
              exists, username, api_token, oauth_config, oauth_token, auth,
              hdr_auth,
              api_version, api_endpoint, successful_auth_method, jira_instance,
              tc_pc, tc_idx, tc_ret, f_pc, f_scope, f_tasks, s_tasks, start_at,
              total, probeLog, authState, probed200, reqLog, constTotal,
              lastKind, expected, kept, failed, served, queried, searched>>
fVars    == <<f_pc, f_scope, f_tasks, s_tasks, start_at, total, reqLog,
              constTotal, lastKind, expected, kept, failed, served,
              queried, searched>>

\* ------------------------------------------------------------- negotiation
\* The ordered candidate list of test_connection.
test_methods ==
    << [name |-> "Basic Auth + API v3",           version |-> 3, auth_method |-> "basic"],
       [name |-> "Basic Auth + API v2",           version |-> 2, auth_method |-> "basic"],
       [name |-> "Authorization Header + API v3", version |-> 3, auth_method |-> "header"],
       [name |-> "Authorization Header + API v2", version |-> 2, auth_method |-> "header"] >>

\* What one requests.get of the candidate loop can end in: a response with
\* a status code, or one of the exceptions the loop catches.
HttpStatuses == {200, 401, 403, 404, 500}
ProbeErrors  == {"ConnectTimeout", "SSLError", "ConnectionError", "Exception"}
ProbeOutcomes ==
    [kind : {"response"}, status : HttpStatuses]
        \cup [kind : ProbeErrors, status : {0}]

\* What the library's token-style identity check can end in.
TokenOutcomes ==
    [kind : {"response"}, status : {200}]
        \cup [kind : {"ImportError", "Exception"}, status : {0}]

\* response.status_code == 200
IsSuccess(r) == r.kind = "response" /\ r.status = 200

\* Mutant: the version test matches every identity URL.
RecordedVersion_AlwaysV3(method) == 3

\* 'api/3' in method['url'] decides the version that is recorded.
RecordedVersion(method) == IF method.version = 3 THEN 3 ELSE 2

\* The first statement of test_connection that touches the network, from
\* the client's credentials: the token-style check if an api_token is set,
\* else (OAuth is a no-op returning False) the candidate loop if self.auth
\* is set, else the call returns False at once.
TcEntry ==
    IF api_token THEN "token"
    ELSE IF auth THEN "loop" ELSE "done"

TcBegin ==
    /\ tc_pc' = TcEntry
    /\ tc_idx' = 1
    /\ tc_ret' = IF TcEntry = "done" THEN "False" ELSE "none"
    /\ probeLog' = <<>>
    /\ authState' = IF TcEntry = "done" THEN "FAILED" ELSE "PROBING"

\* Where test_connection goes after _test_token_auth: `if self.api_token and
\* self._test_token_auth(): return True`, then OAuth (a no-op returning
\* False), then `if not self.auth: return False`, then the candidate loop.
TokenNextPc(r, has_auth) ==
    IF IsSuccess(r) THEN "done"
    ELSE IF has_auth THEN "loop" ELSE "done"

\* Mutant: a 200 is recorded but the loop does not return.
ProbeNextPc_NoReturn(r, idx) ==
    IF idx < Len(test_methods) THEN "loop" ELSE "done"

\* Mutant: an exception of the probe ends the negotiation.
ProbeNextPc_ErrorStops(r, idx) ==
    IF IsSuccess(r) \/ r.kind # "response" THEN "done"
    ELSE IF idx < Len(test_methods) THEN "loop" ELSE "done"

\* Where the candidate loop goes after the probe of candidate idx: a 200
\* returns True, every other status and every exception goes on to the next
\* candidate, and the loop's end returns False.
ProbeNextPc(r, idx) ==
    IF IsSuccess(r) THEN "done"
    ELSE IF idx < Len(test_methods) THEN "loop" ELSE "done"

\* The value test_connection returns: a bare bool.
ReturnValue(r) == IF IsSuccess(r) THEN "True" ELSE "False"

\* The probe history a value returned by test_connection carries: a bool
\* carries none, the probes' outcomes are only logged.
HistoryOf(ret) == <<>>

\* _test_token_auth and what test_connection does with its result.
TokenAuth ==
    /\ UNCHANGED pureVars
    /\ tc_pc = "token"
    /\ \E r \in TokenOutcomes :
        /\ probeLog' = IF r.kind = "ImportError" THEN probeLog
                       ELSE Append(probeLog, [cand |-> 0, res |-> r])
        /\ probed200' = (probed200 \/ IsSuccess(r))
        /\ IF IsSuccess(r)
           THEN /\ jira_instance' = TRUE
                /\ successful_auth_method' = "token_auth"
                /\ api_version' = 2
                /\ api_endpoint' = 2
                /\ UNCHANGED hdr_auth
           ELSE UNCHANGED sessVars
        /\ tc_pc' = TokenNextPc(r, auth)
        /\ tc_ret' = IF TokenNextPc(r, auth) = "done" THEN ReturnValue(r) ELSE "none"
        /\ authState' = IF TokenNextPc(r, auth) = "done"
                        THEN (IF IsSuccess(r) THEN "AUTHENTICATED" ELSE "FAILED")
                        ELSE "PROBING"
    /\ UNCHANGED <<tc_idx, mainVars, credVars, fVars>>

\* One iteration of `for method in test_methods`.
Probe ==
    /\ UNCHANGED pureVars
    /\ tc_pc = "loop"
    /\ \E r \in ProbeOutcomes :
        LET method == test_methods[tc_idx] IN
        /\ probeLog' = Append(probeLog, [cand |-> tc_idx, res |-> r])
        /\ probed200' = (probed200 \/ IsSuccess(r))
        /\ IF IsSuccess(r)
           THEN /\ api_version' = RecordedVersion(method)
                /\ api_endpoint' = RecordedVersion(method)
                /\ successful_auth_method' = method.auth_method
                /\ hdr_auth' = (hdr_auth \/ method.auth_method = "header")
                /\ UNCHANGED jira_instance
           ELSE UNCHANGED sessVars
        /\ tc_pc' = ProbeNextPc(r, tc_idx)
        /\ tc_idx' = IF ProbeNextPc(r, tc_idx) = "loop" THEN tc_idx + 1 ELSE tc_idx
        /\ tc_ret' = IF ProbeNextPc(r, tc_idx) = "done" THEN ReturnValue(r) ELSE "none"
        /\ authState' = IF ProbeNextPc(r, tc_idx) = "done"
                        THEN (IF IsSuccess(r) THEN "AUTHENTICATED" ELSE "FAILED")
                        ELSE "PROBING"
    /\ UNCHANGED <<mainVars, credVars, fVars>>

\* ------------------------------------------------------------------- fetch
\* A raw record of a search page. Its shape is one of: a mapping from which
\* every mandatory field can be read ("ok"), a mapping from which one cannot
\* ("malformed"), or a value that is no mapping at all, such as null
\* ("nonmapping"). The tracker numbers the records of a scope by position.
RawKinds == {"ok", "malformed", "nonmapping"}

RECURSIVE KindSeqs(_)
KindSeqs(n) ==
    IF n = 0 THEN {<<>>}
    ELSE LET shorter == KindSeqs(n - 1) IN
         shorter \cup {Append(q, k) : q \in {x \in shorter : Len(x) = n - 1},
                                      k \in RawKinds}

\* The pages the tracker can answer with at offset `off` of scope `sc`, when
\* it has `budget` records left to serve.
PagesAt(sc, off, budget) ==
    { [i \in 1..Len(q) |-> [scope |-> sc, key |-> off + i - 1, kind |-> q[i]]] :
        q \in KindSeqs(budget) }

\* The totals the tracker can report in its answer to the request at offset
\* `off`: a fixed total, or one that is ahead of the offset (issues are being
\* created, or the total is computed from startAt).
TotalsAt(off) == {0, 50, 51, 120} \cup {off + 51, off + 100}

\* What one requests.get of the search loop, followed by response.json(),
\* can end in.
SearchOutcomes(sc, off, budget) ==
    [kind : {"response"}, status : {200}, total : TotalsAt(off),
     issues : PagesAt(sc, off, budget)]
        \cup [kind : {"response"}, status : {400, 401, 403, 500},
              total : {0}, issues : {<<>>}]
        \cup [kind : {"Timeout", "RequestException", "Exception"}, status : {0},
              total : {0}, issues : {<<>>}]

TaskOf(issue) == [scope |-> issue.scope, key |-> issue.key]

\* _parse_issue: a task, None, or an exception that leaves the function
\* (the handler's own issue.get fails on a value that is no mapping).
parse_issue(issue) ==
    CASE issue.kind = "ok"         -> [out |-> "task",  task |-> TaskOf(issue)]
      [] issue.kind = "malformed"  -> [out |-> "None",  task |-> TaskOf(issue)]
      [] issue.kind = "nonmapping" -> [out |-> "raise", task |-> TaskOf(issue)]

\* `for issue in issues: task = self._parse_issue(issue); if task: append`.
RECURSIVE ParsePage(_, _)
ParsePage(issues, acc) ==
    IF issues = <<>> THEN [tasks |-> acc, raised |-> FALSE]
    ELSE LET p == parse_issue(Head(issues)) IN
         IF p.out = "raise" THEN [tasks |-> acc, raised |-> TRUE]
         ELSE ParsePage(Tail(issues),
                        IF p.out = "task" THEN Append(acc, p.task) ELSE acc)

\* `if start_at + max_results >= total: break`, negated.
ContinuePaging(offset, tot) == ~(offset + max_results >= tot)

\* `start_at += max_results`.
NextOffset(offset) == offset + max_results

\* The request _execute_search sends at the current offset.
\* Mutant: the search passes the auth parameter whatever was recorded.
SearchRequest_AlwaysAuthParam ==
    [offset |-> start_at, root |-> api_endpoint, auth |-> TRUE, hdr |-> hdr_auth]

\* The request _execute_search sends at the current offset.
SearchRequest ==
    [offset |-> start_at, root |-> api_endpoint,
     auth |-> (successful_auth_method = "basic"), hdr |-> hdr_auth]

\* The records among `issues` that parse, as tasks, in order.
RECURSIVE Parseable(_)
Parseable(issues) ==
    IF issues = <<>> THEN <<>>
    ELSE IF Head(issues).kind = "ok"
         THEN <<TaskOf(Head(issues))>> \o Parseable(Tail(issues))
         ELSE Parseable(Tail(issues))

\* The records among `issues` that parse and that no record that is no
\* mapping precedes, as tasks, in order.
RECURSIVE ParseableHead(_)
ParseableHead(issues) ==
    IF issues = <<>> \/ Head(issues).kind = "nonmapping" THEN <<>>
    ELSE IF Head(issues).kind = "ok"
         THEN <<TaskOf(Head(issues))>> \o ParseableHead(Tail(issues))
         ELSE ParseableHead(Tail(issues))

\* What the value fetch_tasks returns tells its caller about the scopes that
\* failed and about the records that were dropped: the value is the list of
\* tasks and nothing else, failures and parse errors are only logged.
FetchErrorsOf(tasks) == {}

DroppedCountOf(tasks) == 0

\* The start of one scope's _execute_search, as fetch_tasks calls it.
ScopeBegin ==
    /\ s_tasks' = <<>> /\ start_at' = 0 /\ total' = 0
    /\ reqLog' = <<>> /\ constTotal' = -2 /\ lastKind' = "none"

\* fetch_tasks up to its first network call; the value an earlier
\* test_connection returned is the caller's by now.
FetchBegin(projs) ==
    /\ f_tasks' = <<>>
    /\ f_scope' = 1 /\ queried' = {} /\ served' = 0
    /\ expected' = <<>> /\ kept' = <<>> /\ failed' = {}
    /\ ScopeBegin
    /\ f_pc' = IF projs = <<>> THEN "done"
               ELSE IF jira_instance THEN "lib"
               ELSE IF api_endpoint = NoVersion THEN "done"
               ELSE "page"
    /\ probeLog' = <<>> /\ tc_pc' = "idle" /\ tc_idx' = 1 /\ tc_ret' = "none"
    /\ UNCHANGED searched

\* Where _execute_search goes after a page that was answered with 200.
AfterPage(raised, offset, tot) ==
    IF raised THEN "ret"
    ELSE IF ContinuePaging(offset, tot) THEN "page" ELSE "ret"

\* Mutant: a failed page request ends the whole fetch.
AfterFailure_EndsFetch == "done"

\* Where _execute_search goes after a page request that failed.
AfterFailure == "ret"

\* What _execute_search holds after a page request that failed.
TasksAfterFailure(tasks) == tasks

\* One iteration of `while True` of _execute_search.
SearchPage ==
    /\ UNCHANGED pureVars
    /\ f_pc = "page" /\ Len(reqLog) < MaxPages
    /\ \E r \in SearchOutcomes(f_scope, start_at, MaxRecords - served) :
        /\ reqLog' = Append(reqLog, SearchRequest)
        /\ queried' = queried \cup {f_scope}
        /\ searched' = TRUE
        /\ served' = served + Len(r.issues)
        /\ IF IsSuccess(r)
           THEN LET pp == ParsePage(r.issues, s_tasks) IN
                /\ s_tasks' = pp.tasks
                /\ expected' = expected \o Parseable(r.issues)
                /\ constTotal' = IF constTotal \in {-2, r.total} THEN r.total ELSE -1
                /\ lastKind' = IF pp.raised THEN "parse_raise" ELSE "ok"
                /\ kept' = kept \o ParseableHead(r.issues)
                /\ UNCHANGED failed
                /\ f_pc' = AfterPage(pp.raised, start_at, r.total)
                /\ total' = IF pp.raised THEN total ELSE r.total
                /\ start_at' = IF AfterPage(pp.raised, start_at, r.total) = "page"
                               THEN NextOffset(start_at) ELSE start_at
           ELSE /\ f_pc' = AfterFailure
                /\ s_tasks' = TasksAfterFailure(s_tasks)
                /\ lastKind' = IF r.kind = "response" THEN "http_error" ELSE "exception"
                /\ failed' = failed \cup {f_scope}
                /\ UNCHANGED <<start_at, total, expected, constTotal, kept>>
    /\ UNCHANGED <<mainVars, credVars, sessVars, tcVars, probeLog, authState,
                   probed200, f_scope, f_tasks>>

\* _execute_search returns; fetch_tasks extends its list and goes on to the
\* next project.
ScopeReturn ==
    /\ UNCHANGED pureVars
    /\ f_pc = "ret"
    /\ f_tasks' = f_tasks \o s_tasks
    /\ ScopeBegin
    /\ IF f_scope < Len(projects)
       THEN f_scope' = f_scope + 1 /\ f_pc' = "page"
       ELSE f_pc' = "done" /\ UNCHANGED f_scope
    /\ UNCHANGED <<mainVars, credVars, sessVars, tcVars, probeLog, authState,
                   probed200, queried, searched, served, expected, kept,
                   failed>>

\* A record of the library's search result: an object whose fields parse
\* ("ok") or one for which _parse_jira_library_issue returns None.
LibKinds == {"ok", "malformed"}

LibResults(sc, budget) ==
    { [i \in 1..Len(q) |-> [scope |-> sc, key |-> i - 1, kind |-> q[i]]] :
        q \in {x \in KindSeqs(budget) : \A i \in 1..Len(x) : x[i] \in LibKinds} }

\* _parse_jira_library_issue: a task or None; its handler reads the key with
\* getattr and a default, so nothing leaves the function.
parse_jira_library_issue(issue) ==
    IF issue.kind = "ok"
    THEN [out |-> "task", task |-> TaskOf(issue)]
    ELSE [out |-> "None", task |-> TaskOf(issue)]

\* `for issue in issues: task = self._parse_jira_library_issue(issue); ...`.
RECURSIVE ParseLibraryIssues(_, _)
ParseLibraryIssues(issues, acc) ==
    IF issues = <<>> THEN acc
    ELSE LET p == parse_jira_library_issue(Head(issues)) IN
         ParseLibraryIssues(Tail(issues),
                            IF p.out = "task" THEN Append(acc, p.task) ELSE acc)

\* One iteration of the project loop of _fetch_tasks_with_jira_library:
\* search_issues raises, or returns the issues of the scope.
LibrarySearch ==
    /\ UNCHANGED pureVars
    /\ f_pc = "lib"
    /\ \E raised \in BOOLEAN :
        \E issues \in (IF raised THEN {<<>>}
                       ELSE LibResults(f_scope, MaxRecords - served)) :
            /\ f_tasks' = ParseLibraryIssues(issues, f_tasks)
            /\ expected' = expected \o Parseable(issues)
            /\ kept' = kept \o ParseableHead(issues)
            /\ served' = served + Len(issues)
            /\ failed' = IF raised THEN failed \cup {f_scope} ELSE failed
    /\ queried' = queried \cup {f_scope}
    /\ searched' = TRUE
    /\ IF f_scope < Len(projects)
       THEN f_scope' = f_scope + 1 /\ f_pc' = "lib"
       ELSE f_pc' = "done" /\ UNCHANGED f_scope
    /\ UNCHANGED <<mainVars, credVars, sessVars, tcVars, probeLog, authState,
                   probed200, s_tasks, start_at, total, reqLog, constTotal,
                   lastKind>>

\* -------------------------------------------------------------------- main
\* The project lists a run is given: up to MaxScopes scopes, named 1, 2, ...
ProjectLists == {[i \in 1..n |-> i] : n \in 0..MaxScopes}

\* What the configuration holds for a key of its 'jira' section: nothing,
\* an empty value (empty string or null), or a value.
FieldStates == {"absent", "empty", "set"}
JiraConfigs == [base_url : FieldStates, username : FieldStates, api_token : FieldStates]

\* No configuration was read.
NoConfig == [base_url |-> "absent", username |-> "absent", api_token |-> "absent"]

\* A configuration file: its 'jira' section and its 'projects'.
ConfigFiles == [jira : JiraConfigs, projects : ProjectLists]

\* The default configuration that _load_config writes and returns when the
\* file does not exist: placeholder values for the three keys and the two
\* placeholder projects PROJ1 and PROJ2.
default_config ==
    [jira |-> [base_url |-> "set", username |-> "set", api_token |-> "set"],
     projects |-> <<1, 2>>]

\* ConfigManager._load_config
load_config(found, file) == IF found THEN file ELSE default_config

\* `if not projects`
NoProjects(projs) == projs = <<>>

\* `all(jira_config.get(k) for k in ['base_url', 'username', 'api_token'])`
ConfigComplete(cfg) ==
    \A k \in {"base_url", "username", "api_token"} : cfg[k] = "set"

\* main up to its call of test_connection: the configuration checks, the
\* construction of the client and --force-api.
MainStart ==
    /\ UNCHANGED pureVars
    /\ driver = "main" /\ m_pc = "start"
    /\ \E found \in BOOLEAN, file \in ConfigFiles, args_projects \in ProjectLists,
          force_api \in {0, 2, 3} :
        LET config == load_config(found, file)
            projs  == IF args_projects # <<>> THEN args_projects ELSE config.projects
            cfg    == config.jira
        IN
        /\ config_exists' = found
        /\ projects' = projs /\ jira_config' = cfg
        /\ IF NoProjects(projs) \/ ~ConfigComplete(cfg)
           THEN /\ m_pc' = "done" /\ rc' = 1
                /\ UNCHANGED <<driver, summary_made, report_made, calls, credVars,
                               sessVars, tcVars, fVars, probeLog, authState, probed200>>
           ELSE /\ exists' = TRUE /\ username' = TRUE /\ api_token' = TRUE
                /\ auth' = TRUE
                /\ UNCHANGED <<oauth_config, oauth_token>>
                /\ IF force_api # 0
                   THEN /\ api_version' = force_api
                        /\ api_endpoint' = force_api
                        /\ successful_auth_method' = "basic"
                   ELSE UNCHANGED <<api_version, api_endpoint, successful_auth_method>>
                /\ UNCHANGED <<hdr_auth, jira_instance>>
                /\ m_pc' = "test"
                /\ tc_pc' = "token" /\ tc_idx' = 1 /\ tc_ret' = "none"
                /\ probeLog' = <<>> /\ authState' = "PROBING"
                /\ UNCHANGED <<driver, rc, summary_made, report_made, calls, fVars,
                               probed200>>

\* Mutant: main does not look at the result of test_connection.
ConnectionFailed_Ignored(ret) == FALSE

\* `if not jira_client.test_connection()`.
ConnectionFailed(ret) == ret # "True"

\* main from the return of test_connection to its call of fetch_tasks.
MainAfterTest ==
    /\ UNCHANGED pureVars
    /\ driver = "main" /\ m_pc = "test" /\ tc_pc = "done"
    /\ IF ConnectionFailed(tc_ret)
       THEN /\ m_pc' = "done" /\ rc' = 1
            /\ UNCHANGED <<fVars, probeLog, tcVars>>
       ELSE \E test_only \in BOOLEAN :
            IF test_only
            THEN /\ m_pc' = "done" /\ rc' = 0
                 /\ UNCHANGED <<fVars, probeLog, tcVars>>
            ELSE /\ m_pc' = "fetch" /\ UNCHANGED rc
                 /\ FetchBegin(projects)
    /\ UNCHANGED <<driver, jira_config, config_exists, projects, summary_made, report_made, calls,
                   credVars, sessVars, authState, probed200>>

\* main from the return of fetch_tasks to its end: summarize_tasks compares
\* each task's `updated` with the naive datetime.now(), which raises for a
\* timezone-aware value (a raw-path timestamp that carried an offset); the
\* report is then written, which can fail on the file system.
MainAfterFetch ==
    /\ UNCHANGED pureVars
    /\ driver = "main" /\ m_pc = "fetch" /\ f_pc = "done"
    /\ m_pc' = "done"
    /\ IF f_tasks = <<>>
       THEN rc' = 0 /\ UNCHANGED <<summary_made, report_made>>
       ELSE \E aware \in BOOLEAN, io_ok \in BOOLEAN :
            IF aware /\ ~jira_instance
            THEN rc' = 1 /\ UNCHANGED <<summary_made, report_made>>
            ELSE /\ summary_made' = TRUE
                 /\ report_made' = io_ok
                 /\ rc' = IF io_ok THEN 0 ELSE 1
    /\ UNCHANGED <<driver, jira_config, config_exists, projects, calls, credVars, sessVars, tcVars, fVars,
                   probeLog, authState, probed200>>

\* ------------------------------------------------- direct use of JiraClient
CredentialInputs ==
    [username : BOOLEAN, api_token : BOOLEAN,
     oauth : {"none", "incomplete", "complete", "with_access_token"}]

\* JiraClient.__init__ with _setup_oauth / _setup_basic_auth.
ClientConstruct ==
    /\ UNCHANGED pureVars
    /\ driver = "client" /\ m_pc = "start"
    /\ \E c \in CredentialInputs :
        IF c.oauth = "incomplete" \/ (c.oauth = "none" /\ ~(c.username /\ c.api_token))
        THEN /\ m_pc' = "done"
             /\ UNCHANGED credVars
        ELSE /\ m_pc' = "ready"
             /\ exists' = TRUE
             /\ username' = c.username
             /\ api_token' = c.api_token
             /\ oauth_config' = (c.oauth # "none")
             /\ oauth_token' = (c.oauth = "with_access_token")
             /\ auth' = (c.oauth = "none")
    /\ UNCHANGED <<driver, jira_config, config_exists, rc, projects, summary_made, report_made, calls,
                   sessVars, tcVars, fVars, probeLog, authState, probed200>>

ClientIdle ==
    /\ driver = "client" /\ m_pc = "ready" /\ calls < MaxCalls
    /\ tc_pc \in {"idle", "done"} /\ f_pc \in {"idle", "done"}

\* A caller invokes test_connection; the list an earlier fetch_tasks
\* returned is the caller's by now.
ClientTest ==
    /\ UNCHANGED pureVars
    /\ ClientIdle
    /\ calls' = calls + 1
    /\ TcBegin
    /\ f_pc' = "idle" /\ f_tasks' = <<>> /\ f_scope' = 1 /\ projects' = <<>>
    /\ queried' = {} /\ served' = 0 /\ expected' = <<>> /\ kept' = <<>>
    /\ failed' = {}
    /\ UNCHANGED <<driver, jira_config, config_exists, m_pc, rc, summary_made, report_made,
                   credVars, sessVars, s_tasks, start_at, total, reqLog,
                   constTotal, lastKind, searched, probed200>>

\* A caller invokes fetch_tasks.
ClientFetch ==
    /\ UNCHANGED pureVars
    /\ ClientIdle
    /\ calls' = calls + 1
    /\ \E projs \in ProjectLists : projects' = projs /\ FetchBegin(projs)
    /\ UNCHANGED <<driver, jira_config, config_exists, m_pc, rc, summary_made, report_made,
                   credVars, sessVars, authState, probed200>>

\* --------------------------------------------------- the parse functions
\* One issue as the tracker holds it, by the shape of the fields the parse
\* functions read. A plain field (key, summary) holds a value, holds null or
\* is absent; a named field (status, priority) is an object with a name, an
\* object whose name is null, null, or absent. `rest` stands for everything
\* else the constructor call reads without a default ('fields' itself,
\* project.key, issuetype.name, an iterable components).
FieldShapes == {"value", "null", "absent"}
NamedShapes == {"value", "name_null", "null", "absent"}

\* A timestamp field: ISO text with a UTC offset or 'Z', ISO text without an
\* offset, a date without a time, null, or text with a 'T' that is no ISO
\* timestamp.
StampForms == {"offset", "plain", "date_only", "null", "garbage"}

RawIssues ==
    [mapping : {TRUE}, key : FieldShapes, summary : FieldShapes,
     status : NamedShapes, priority : NamedShapes,
     created : StampForms, updated : StampForms, rest : {"value", "unusable"}]
        \cup [mapping : {FALSE}, key : {"absent"}, summary : {"absent"},
              status : {"absent"}, priority : {"absent"},
              created : {"null"}, updated : {"null"}, rest : {"unusable"}]

\* issue['key'], fields['summary'] (issue.key, issue.fields.summary): a null
\* is read like a value, an absent field raises.
ReadField(shape) ==
    CASE shape = "value"  -> "value"
      [] shape = "null"   -> "null"
      [] shape = "absent" -> "fail"

\* fields['status']['name'] (issue.fields.status.name): a null name is read
\* like a value; a null or absent object raises.
ReadName(shape) ==
    CASE shape = "value"     -> "value"
      [] shape = "name_null" -> "null"
      [] shape = "null"      -> "fail"
      [] shape = "absent"    -> "fail"

\* datetime.fromisoformat(text.replace('Z', '+00:00')) of _parse_issue: an
\* offset gives a timezone-aware value, no offset a naive one.
HttpStamp(form) ==
    CASE form = "offset"    -> "aware"
      [] form = "plain"     -> "naive"
      [] form = "date_only" -> "naive"
      [] form = "null"      -> "fail"
      [] form = "garbage"   -> "fail"

\* parse_datetime of _parse_jira_library_issue: the offset is cut off with
\* replace(tzinfo=None); text without a 'T' falls back to datetime.now().
LibStamp(form) ==
    CASE form = "offset"    -> "naive"
      [] form = "plain"     -> "naive"
      [] form = "date_only" -> "naive_now"
      [] form = "null"      -> "naive_now"
      [] form = "garbage"   -> "fail"

\* The kind of a timestamp a parse function emitted.
StampKind(stamp) == IF stamp = "aware" THEN "aware" ELSE "naive"

\* The kind of datetime.now().
NowKind == "naive"

\* `a >= b` of two datetime values is defined when both are naive or both
\* are aware; otherwise it raises TypeError.
Comparable(kind_a, kind_b) == kind_a = kind_b

NoIssue ==
    [mapping |-> FALSE, key |-> "none", summary |-> "none", status |-> "none",
     priority |-> "none", created |-> "none", updated |-> "none",
     rest |-> "none"]

NoTask ==
    [key |-> "none", summary |-> "none", status |-> "none", priority |-> "none",
     created |-> "none", updated |-> "none"]

Pending == [out |-> "pending", task |-> NoTask]

\* The JiraTask(...) call of a parse function: every argument is evaluated,
\* the first that raises ends the try block.
BuildTask(t, rest) ==
    IF rest # "value" \/ "fail" \in {t.key, t.summary, t.status, t.priority,
                                      t.created, t.updated}
    THEN [out |-> "None", task |-> NoTask]
    ELSE [out |-> "task", task |-> t]

\* _parse_issue on the JSON form of the issue: a task, None, or the
\* AttributeError of the handler's issue.get on a value that is no mapping.
parse_issue_fields(raw) ==
    IF ~raw.mapping THEN [out |-> "raise", task |-> NoTask]
    ELSE BuildTask([key      |-> ReadField(raw.key),
                    summary  |-> ReadField(raw.summary),
                    status   |-> ReadName(raw.status),
                    priority |-> ReadName(raw.priority),
                    created  |-> HttpStamp(raw.created),
                    updated  |-> HttpStamp(raw.updated)], raw.rest)

\* _parse_jira_library_issue on the library object of the issue: a task or
\* None (the handler reads the key with getattr and a default).
parse_jira_library_issue_fields(raw) ==
    IF ~raw.mapping THEN [out |-> "None", task |-> NoTask]
    ELSE BuildTask([key      |-> ReadField(raw.key),
                    summary  |-> ReadField(raw.summary),
                    status   |-> ReadName(raw.status),
                    priority |-> ReadName(raw.priority),
                    created  |-> LibStamp(raw.created),
                    updated  |-> LibStamp(raw.updated)], raw.rest)

\* The raw-HTTP path parses the issue.
ParseHttp ==
    /\ driver = "parse" /\ p_http = Pending
    /\ p_http' = parse_issue_fields(p_raw)
    /\ UNCHANGED <<pipeVars, p_raw, p_lib, sumVars, catVars, extVars,
                   repVars, schedVars>>

\* The library path parses the issue.
ParseLib ==
    /\ driver = "parse" /\ p_lib = Pending
    /\ p_lib' = parse_jira_library_issue_fields(p_raw)
    /\ UNCHANGED <<pipeVars, p_raw, p_http, sumVars, catVars, extVars,
                   repVars, schedVars>>

\* ------------------------------------------------------ StatusSummarizer
\* Time is counted in days. The tasks handed to summarize_tasks: JiraTask
\* objects as the parse functions emit them, numbered by their position in
\* the list; assignee "" is None, story_points 0 is None, `kind` is the kind
\* of the `updated` timestamp.
StatusNames == {"Done", "In Progress", "Reopened"}
UpdatedSet  == {5, 6, 12, 13, 20}
NowSet      == {20, 21}

TaskDomain ==
    [status : StatusNames, assignee : {"", "alice"}, project : {"PROJ"},
     priority : {"High"}, story_points : {0, 3}, updated : UpdatedSet,
     kind : {"naive", "aware"}]

\* self.status_groups, in the order of the dict.
status_groups ==
    << [group |-> "completed",   statuses |-> {"Done", "Closed", "Resolved", "Complete"}],
       [group |-> "in_progress", statuses |-> {"In Progress", "In Development", "In Review", "Testing"}],
       [group |-> "blocked",     statuses |-> {"Blocked", "Waiting", "On Hold"}],
       [group |-> "todo",        statuses |-> {"To Do", "Open", "New", "Backlog"}] >>

RECURSIVE FirstGroup(_, _)
FirstGroup(groups, status) ==
    IF groups = <<>> THEN "other"
    ELSE IF status \in Head(groups).statuses THEN Head(groups).group
    ELSE FirstGroup(Tail(groups), status)

\* Mutant: a name that no group lists is its own group.
categorize_status_Unlisted(status) ==
    IF \E i \in 1..Len(status_groups) : status \in status_groups[i].statuses
    THEN FirstGroup(status_groups, status)
    ELSE status

\* _categorize_status.
categorize_status(status) == FirstGroup(status_groups, status)

\* The names of the table.
ListedNames == UNION {status_groups[i].statuses : i \in 1..Len(status_groups)}

\* Status names a tracker sends: the names of the table, the same in another
\* case or with a blank, names of no group, and "" for a status without a
\* name (None).
RawStatusNames ==
    ListedNames \cup {"done", "DONE", "Done ", "in progress", "Reopened",
                      "Won't Do", "other", "completed", ""}

EmptyHist == [k \in {} |-> 0]

\* hist[label] = hist.get(label, 0) + 1
Incr(hist, label) ==
    IF label \in DOMAIN hist THEN [hist EXCEPT ![label] = @ + 1]
    ELSE hist @@ (label :> 1)

\* `task.assignee or 'Unassigned'`
AssigneeLabel(task) == IF task.assignee = "" THEN "Unassigned" ELSE task.assignee

week_ago(now) == now - 7

two_weeks_ago(now) == now - 14

\* Mutant: the week's boundary is exclusive.
InThisWeek_Exclusive(task, now) == task.updated > week_ago(now)

\* `if task.updated >= week_ago`
InThisWeek(task, now) == task.updated >= week_ago(now)

\* `elif task.updated >= two_weeks_ago`
InLastWeek(task, now) == ~InThisWeek(task, now) /\ task.updated >= two_weeks_ago(now)

\* The summary dict before the loop.
EmptySummary ==
    [out |-> "summary",
     keys |-> {"total_tasks", "by_status", "by_project", "by_assignee",
               "by_priority", "recent_updates", "story_points", "timeline"},
     total_tasks |-> 0, by_status |-> EmptyHist, by_project |-> EmptyHist,
     by_assignee |-> EmptyHist, by_priority |-> EmptyHist,
     sp_total |-> 0, sp_completed |-> 0, this_week |-> <<>>, last_week |-> <<>>]

\* Results that are no summary: the call has not happened, it returned
\* {"error": "No tasks found"}, or it raised; of the fields only `out` and
\* `keys` mean something.
NotCalled   == [EmptySummary EXCEPT !.out = "none", !.keys = {}]
ErrorResult == [EmptySummary EXCEPT !.out = "error", !.keys = {"error"}]
RaisedTypeError == [EmptySummary EXCEPT !.out = "TypeError", !.keys = {}]

\* The body of `for task in tasks` for one task.
AddTask(summary, task, now) ==
    LET status_group == categorize_status(task.status)
        counted ==
            [summary EXCEPT
                !.by_status   = Incr(@, status_group),
                !.by_project  = Incr(@, task.project),
                !.by_assignee = Incr(@, AssigneeLabel(task)),
                !.by_priority = Incr(@, task.priority),
                !.sp_total    = IF task.story_points # 0
                                THEN @ + task.story_points ELSE @,
                !.sp_completed = IF task.story_points # 0 /\ status_group = "completed"
                                 THEN @ + task.story_points ELSE @]
    IN  IF ~Comparable(task.kind, NowKind) THEN RaisedTypeError
        ELSE IF InThisWeek(task, now)
             THEN [counted EXCEPT !.this_week = Append(@, task)]
        ELSE IF InLastWeek(task, now)
             THEN [counted EXCEPT !.last_week = Append(@, task)]
        ELSE counted

\* `for task in tasks`: an exception ends the loop and the call.
RECURSIVE SummaryLoop(_, _, _)
SummaryLoop(summary, tasks, now) ==
    IF tasks = <<>> \/ summary.out # "summary" THEN summary
    ELSE SummaryLoop(AddTask(summary, Head(tasks), now), Tail(tasks), now)

\* The place of `task` in a list that is sorted by `updated`, most recent
\* first: behind every entry that is not older (the sort is stable).
RECURSIVE InsertByUpdated(_, _)
InsertByUpdated(sorted, task) ==
    IF sorted = <<>> THEN <<task>>
    ELSE IF Head(sorted).updated >= task.updated
         THEN <<Head(sorted)>> \o InsertByUpdated(Tail(sorted), task)
         ELSE <<task>> \o sorted

RECURSIVE SortedFrom(_, _)
SortedFrom(list, sorted) ==
    IF list = <<>> THEN sorted
    ELSE SortedFrom(Tail(list), InsertByUpdated(sorted, Head(list)))

\* Mutant: the list is returned in the order of the input.
sort_by_updated_Unsorted(list) == list

\* list.sort(key=lambda x: x.updated, reverse=True)
sort_by_updated(list) == SortedFrom(list, <<>>)

\* summarize_tasks, with what datetime.now() returned.
summarize_tasks(tasks, now) ==
    IF tasks = <<>> THEN ErrorResult
    ELSE LET looped == SummaryLoop([EmptySummary EXCEPT !.total_tasks = Len(tasks)],
                                   tasks, now)
         IN  IF looped.out # "summary" THEN looped
             ELSE [looped EXCEPT !.this_week = sort_by_updated(@),
                                 !.last_week = sort_by_updated(@)]

\* _categorize_status has not been called.
NoCall == [status |-> "", group |-> "none"]

\* A caller collects one more task for the list (as fetch_tasks does).
CollectTask ==
    /\ driver = "summarize" /\ a_result = NotCalled /\ c_call = NoCall
    /\ Len(a_tasks) < MaxIssues
    /\ \E t \in TaskDomain :
        a_tasks' = Append(a_tasks, [key |-> Len(a_tasks) + 1] @@ t)
    /\ UNCHANGED <<pipeVars, a_now, a_result, a_first, parseVars, catVars, extVars,
                   repVars, schedVars>>

\* A caller hands the list to summarize_tasks, for the first time or, later,
\* for the second; the call reads the clock (line 621), which has not gone
\* back since the call before.
Summarize ==
    /\ driver = "summarize" /\ a_first = NotCalled /\ c_call = NoCall
    /\ \E now \in NowSet :
        /\ now >= a_now
        /\ a_now' = now
        /\ a_result' = summarize_tasks(a_tasks, now)
    /\ a_first' = a_result
    /\ UNCHANGED <<pipeVars, a_tasks, parseVars, catVars, extVars,
                   repVars, schedVars>>

\* A caller hands one status name to _categorize_status.
Categorize ==
    /\ driver = "summarize" /\ a_result = NotCalled /\ a_tasks = <<>>
    /\ c_call = NoCall
    /\ \E status \in RawStatusNames :
        c_call' = [status |-> status, group |-> categorize_status(status)]
    /\ UNCHANGED <<pipeVars, parseVars, sumVars, extVars,
                   repVars, schedVars>>


\* ------------------------------------------------------ the field extractors
\* A record is a tree of values: the record itself is a container (a JSON
\* object or a library object), each node below it holds null, a number or a
\* container, or is absent. `keys` is a name that every dict has as an
\* attribute (a built-in method) and that is no field of the records.
Keys == {"a", "b"}
BuiltinNames == {"keys"}
NodePaths == {<<k>> : k \in Keys} \cup {<<k, l>> : k, l \in Keys}
NodeKinds == {"absent", "None", "7", "container"}

Records ==
    {rec \in [NodePaths -> NodeKinds] :
        \A k, l \in Keys : rec[<<k>>] # "container" => rec[<<k, l>>] = "absent"}

EmptyRecord == [np \in NodePaths |-> "absent"]

\* attr_path.split('.') / key.split('.')
PathNames == Keys \cup BuiltinNames
DottedPaths ==
    {<<k>> : k \in PathNames} \cup {<<k, l>> : k, l \in PathNames}
    \cup {<<k, l, m>> : k, l, m \in PathNames}

\* The defaults handed in: the string 'X' and None.
Defaults == {"X", "None"}

\* The value of the record at a path of names.
NodeAt(rec, at) == IF at \in NodePaths THEN rec[at] ELSE "absent"

NotExtracted == [out |-> "pending", val |-> ""]
Returned(val) == [out |-> "value", val |-> val]
RaisedAttributeError == [out |-> "AttributeError", val |-> ""]

\* hasattr(current, attr): an object exposes its fields, a dict its methods;
\* None, a number, a string and a bound method expose none of the names.
HasAttr(rec, form, kind, at, attr) ==
    /\ kind = "container"
    /\ \/ form = "object" /\ NodeAt(rec, Append(at, attr)) # "absent"
       \/ form = "mapping" /\ attr \in BuiltinNames

\* getattr(current, attr), where hasattr holds.
GetAttr(rec, form, at, attr) ==
    IF form = "object" THEN NodeAt(rec, Append(at, attr)) ELSE "method"

\* `for attr in attrs` of safe_get_attr, with `current` of kind `kind`, found
\* at `at`.
RECURSIVE GetAttrLoop(_, _, _, _, _, _)
GetAttrLoop(rec, form, kind, at, attrs, default) ==
    IF attrs = <<>> THEN Returned(kind)
    ELSE IF HasAttr(rec, form, kind, at, Head(attrs))
         THEN GetAttrLoop(rec, form, GetAttr(rec, form, at, Head(attrs)),
                          Append(at, Head(attrs)), Tail(attrs), default)
         ELSE Returned(default)

\* safe_get_attr(obj, attr_path, default), obj being the record in one form.
safe_get_attr(rec, form, attr_path, default) ==
    GetAttrLoop(rec, form, "container", <<>>, attr_path, default)

\* `for k in keys` of ConfigManager.get, with `value` of kind `kind`, found
\* at `at`: value.get(k, default) exists on a dict only.
RECURSIVE ConfigGetLoop(_, _, _, _, _)
ConfigGetLoop(rec, kind, at, keys, default) ==
    IF keys = <<>> THEN Returned(kind)
    ELSE IF kind # "container" THEN RaisedAttributeError
    ELSE LET found == NodeAt(rec, Append(at, Head(keys)))
             value == IF found = "absent" THEN default ELSE found
         IN  IF value = "None" THEN Returned(default)
             ELSE ConfigGetLoop(rec, value, Append(at, Head(keys)), Tail(keys), default)

\* ConfigManager.get(key, default), self.config being the record.
config_get(rec, key, default) == ConfigGetLoop(rec, "container", <<>>, key, default)

\* safe_get_attr on the record as nested dicts.
GetAttrMapping ==
    /\ driver = "extract" /\ x_map = NotExtracted
    /\ x_map' = safe_get_attr(x_rec, "mapping", x_path, x_default)
    /\ UNCHANGED <<pipeVars, parseVars, sumVars, catVars,
                   x_rec, x_path, x_default, x_obj, x_cfg,
                   repVars, schedVars>>

\* safe_get_attr on the record as nested objects.
GetAttrObject ==
    /\ driver = "extract" /\ x_obj = NotExtracted
    /\ x_obj' = safe_get_attr(x_rec, "object", x_path, x_default)
    /\ UNCHANGED <<pipeVars, parseVars, sumVars, catVars,
                   x_rec, x_path, x_default, x_map, x_cfg,
                   repVars, schedVars>>

\* ConfigManager.get on the record as the loaded configuration.
ConfigGet ==
    /\ driver = "extract" /\ x_cfg = NotExtracted
    /\ x_cfg' = config_get(x_rec, x_path, x_default)
    /\ UNCHANGED <<pipeVars, parseVars, sumVars, catVars,
                   x_rec, x_path, x_default, x_map, x_obj,
                   repVars, schedVars>>


\* ------------------------------------------------- the report API (main.py)
\* A date parameter, by how it is written and by the day it names: zero
\* padded as YYYY-MM-DD ("2024-01-05"), the same day without the padding
\* ("2024-1-5"), with another separator ("2024/01/05"), a day that does not
\* exist ("2024-02-30"), or no date at all ("invalid-date").
DateForms == {"padded", "unpadded", "slashes", "no_such_day", "garbage"}
DateDays == {1, 2, 3}
DateStrings == [form : DateForms, day : DateDays]

\* datetime.strptime(date_string, "%Y-%m-%d") does not raise: the directives
\* %m and %d take one or two digits.
StrptimeAccepts(date) == date.form \in {"padded", "unpadded"}

\* validate_date_format: the parsed day, or ValueError.
validate_date_format(date) ==
    IF StrptimeAccepts(date) THEN [ok |-> TRUE, day |-> date.day]
    ELSE [ok |-> FALSE, day |-> 0]

\* The requests: the two dates, and whether jira_url, personal_access_token
\* and project_key are all non-empty.
ReportRequests == [start_date : DateStrings, end_date : DateStrings, params : BOOLEAN]

NoRequest ==
    [start_date |-> [form |-> "garbage", day |-> 1],
     end_date |-> [form |-> "garbage", day |-> 1], params |-> FALSE]

\* The validation of get_jira_report: the status it raises, 0 if none.
ValidationStatus(req) ==
    LET start_datetime == validate_date_format(req.start_date)
        end_datetime   == validate_date_format(req.end_date)
    IN  IF ~start_datetime.ok \/ ~end_datetime.ok THEN 400
        ELSE IF start_datetime.day > end_datetime.day THEN 400
        ELSE IF ~req.params THEN 400
        ELSE 0

\* What create_jira_client ends in: the client, or an HTTPException.
ClientOutcomes == {"client", "JIRAError", "Exception"}

\* get_jira_report up to and including create_jira_client, which asks the
\* tracker for its server info.
ReportBegin ==
    /\ driver = "report" /\ r_pc = "received"
    /\ IF ValidationStatus(r_req) # 0
       THEN /\ r_status' = ValidationStatus(r_req) /\ r_pc' = "done"
            /\ UNCHANGED <<r_client, r_sent>>
       ELSE /\ r_client' = TRUE /\ r_sent' = TRUE
            /\ \E out \in ClientOutcomes :
                 /\ r_pc' = IF out = "client" THEN "search" ELSE "done"
                 /\ r_status' = IF out = "client" THEN 0
                                ELSE IF out = "JIRAError" THEN 401 ELSE 500
    /\ UNCHANGED <<pipeVars, parseVars, sumVars, catVars, extVars, schedVars, r_req>>

\* What the search and the processing of its issues end in.
ReportOutcomes == {"issues", "JIRAError", "Exception"}

\* get_jira_report from search_issues to its end.
ReportSearch ==
    /\ driver = "report" /\ r_pc = "search"
    /\ \E out \in ReportOutcomes :
         r_status' = IF out = "issues" THEN 200
                     ELSE IF out = "JIRAError" THEN 400 ELSE 500
    /\ r_pc' = "done"
    /\ UNCHANGED <<pipeVars, parseVars, sumVars, catVars, extVars, schedVars,
                   r_req, r_client, r_sent>>

\* The client and the run before anything was called.
PipelineInit ==
    /\ m_pc = "start" /\ rc = -1 /\ projects = <<>> /\ jira_config = NoConfig
    /\ config_exists = FALSE
    /\ summary_made = FALSE /\ report_made = FALSE /\ calls = 0
    /\ exists = FALSE /\ username = FALSE /\ api_token = FALSE
    /\ oauth_config = FALSE
    /\ oauth_token = FALSE /\ auth = FALSE /\ hdr_auth = FALSE
    /\ api_version = NoVersion /\ api_endpoint = NoVersion
    /\ successful_auth_method = "unset" /\ jira_instance = FALSE
    /\ tc_pc = "idle" /\ tc_idx = 1 /\ tc_ret = "none"
    /\ probeLog = <<>> /\ authState = "UNPROBED"
    /\ f_pc = "idle" /\ f_scope = 1 /\ f_tasks = <<>> /\ s_tasks = <<>>
    /\ start_at = 0 /\ total = 0
    /\ reqLog = <<>> /\ constTotal = -2 /\ lastKind = "none" /\ expected = <<>>
    /\ kept = <<>> /\ failed = {} /\ probed200 = FALSE
    /\ served = 0 /\ queried = {} /\ searched = FALSE

\* No issue was handed to the parse functions.
ParseIdle == p_raw = NoIssue /\ p_http = Pending /\ p_lib = Pending

\* StatusSummarizer was not called.
SummarizeIdle ==
    /\ a_tasks = <<>> /\ a_now = -1 /\ a_result = NotCalled
    /\ a_first = NotCalled /\ c_call = NoCall

\* ------------------------- the bi-weekly check (scheduler.py, web_server.py)
\* The daily checks a run of the scheduler goes through.
MaxDays == 21

\* day_map: the weekday number of a day name, 0 = monday.
day_map ==
    [monday |-> 0, tuesday |-> 1, wednesday |-> 2, thursday |-> 3,
     friday |-> 4, saturday |-> 5, sunday |-> 6]

\* The configured day names: the seven of day_map and one it does not know.
TargetDays == DOMAIN day_map \cup {"funday"}

\* datetime.now(): the day, and whether the job fired late within its minute
\* (the scheduler loop polls once a minute).
Moment(day, late) == [day |-> day, late |-> late]

\* today.weekday()
Weekday(today) == today.day % 7

\* (today - last_run).days: the whole days between two moments, rounded down.
ElapsedDays(today, last_run) ==
    (today.day - last_run.day) - (IF last_run.late /\ ~today.late THEN 1 ELSE 0)

\* The test of the skip with a threshold of a week.
TooRecent_Weekly(elapsed) == elapsed < 6

\* if (today - last_run).days < 13: skip.
TooRecent(elapsed) == elapsed < 13

\* last_run.txt: absent, holding no ISO timestamp, or holding one.
NoLastRun == [state |-> "absent", at |-> Moment(0, FALSE)]
UnreadableLastRun == [state |-> "unreadable", at |-> Moment(0, FALSE)]
LastRunAt(today) == [state |-> "ok", at |-> today]

\* The days of the timestamps last_run.txt can hold when the scheduler
\* starts on day 0.
EarlierDays == {-14, -13, -1}

InitialLastRuns ==
    {NoLastRun, UnreadableLastRun}
        \cup {LastRunAt(Moment(d, late)) : d \in EarlierDays, late \in BOOLEAN}

\* No check has run.
NoCheck ==
    [done |-> FALSE, at |-> Moment(0, FALSE), started |-> FALSE, before |-> NoLastRun]

\* The check returns before the update: target_day is unknown, today is
\* another weekday, or last_run.txt is readable and too recent.
Skips(today) ==
    \/ s_target \notin DOMAIN day_map
    \/ Weekday(today) # day_map[s_target]
    \/ s_last.state = "ok" /\ TooRecent(ElapsedDays(today, s_last.at))

\* StatusUpdateScheduler._run_biweekly_check: the update runs, whatever its
\* result, and today is written to last_run.txt.
RunBiweeklyCheck ==
    /\ driver = "schedule" /\ ~s_checked
    /\ s_checked' = TRUE
    /\ \E late \in BOOLEAN :
         LET today == Moment(s_day, late)
         IN  IF Skips(today)
             THEN /\ s_check' = [done |-> TRUE, at |-> today, started |-> FALSE,
                                 before |-> s_last]
                  /\ UNCHANGED <<s_last, s_runs>>
             ELSE /\ s_check' = [done |-> TRUE, at |-> today, started |-> TRUE,
                                 before |-> s_last]
                  /\ s_last' = LastRunAt(today)
                  /\ s_runs' = Append(s_runs, today)
    /\ UNCHANGED <<pipeVars, parseVars, sumVars, catVars, extVars, repVars,
                   s_day, s_target>>

\* ReportServer._biweekly_check: today is written to last_run.txt only if
\* the report was generated.
BiweeklyCheck ==
    /\ driver = "schedule" /\ ~s_checked
    /\ s_checked' = TRUE
    /\ \E late \in BOOLEAN, success \in BOOLEAN :
         LET today == Moment(s_day, late)
         IN  IF Skips(today)
             THEN /\ s_check' = [done |-> TRUE, at |-> today, started |-> FALSE,
                                 before |-> s_last]
                  /\ UNCHANGED <<s_last, s_runs>>
             ELSE /\ s_check' = [done |-> TRUE, at |-> today, started |-> TRUE,
                                 before |-> s_last]
                  /\ IF success
                     THEN /\ s_last' = LastRunAt(today)
                          /\ s_runs' = Append(s_runs, today)
                     ELSE UNCHANGED <<s_last, s_runs>>
    /\ UNCHANGED <<pipeVars, parseVars, sumVars, catVars, extVars, repVars,
                   s_day, s_target>>

\* The next day begins; its check is due (schedule.every().day.at(...)).
NextDay ==
    /\ driver = "schedule" /\ s_day < MaxDays
    /\ s_day' = s_day + 1
    /\ s_checked' = FALSE
    /\ UNCHANGED <<pipeVars, parseVars, sumVars, catVars, extVars, repVars,
                   s_target, s_last, s_runs, s_check>>

\* The report API has received no request.
ReportIdle ==
    /\ r_req = NoRequest /\ r_pc = "idle" /\ r_status = 0
    /\ r_client = FALSE /\ r_sent = FALSE

\* No scheduler runs.
SchedIdle ==
    /\ s_day = 0 /\ s_checked = FALSE /\ s_target = 0
    /\ s_last = NoLastRun /\ s_runs = <<>> /\ s_check = NoCheck

\* The field extractors were not called.
ExtractIdle ==
    /\ x_rec = EmptyRecord /\ x_path = <<>> /\ x_default = "None"
    /\ x_map = NotExtracted /\ x_obj = NotExtracted /\ x_cfg = NotExtracted

Init ==
    /\ driver \in {"main", "client"}
    /\ PipelineInit
    /\ ParseIdle /\ SummarizeIdle /\ ExtractIdle /\ ReportIdle /\ SchedIdle

Next ==
    \/ MainStart
    \/ MainAfterTest
    \/ MainAfterFetch
    \/ ClientConstruct
    \/ ClientTest
    \/ ClientFetch
    \/ TokenAuth
    \/ Probe
    \/ SearchPage
    \/ ScopeReturn
    \/ LibrarySearch

Spec == Init /\ [][Next]_vars

\* The two parse functions on one issue.
ParseInit ==
    /\ driver = "parse"
    /\ PipelineInit
    /\ p_raw \in RawIssues /\ p_http = Pending /\ p_lib = Pending
    /\ SummarizeIdle /\ ExtractIdle /\ ReportIdle /\ SchedIdle

ParseNext == ParseHttp \/ ParseLib

ParseSpec == ParseInit /\ [][ParseNext]_vars

\* StatusSummarizer on one list of tasks.
SummarizeInit ==
    /\ driver = "summarize"
    /\ PipelineInit
    /\ ParseIdle /\ SummarizeIdle /\ ExtractIdle /\ ReportIdle /\ SchedIdle

SummarizeNext == CollectTask \/ Summarize \/ Categorize

SummarizeSpec == SummarizeInit /\ [][SummarizeNext]_vars

\* The field extractors on one record, one path and one default.
ExtractInit ==
    /\ driver = "extract"
    /\ PipelineInit
    /\ ParseIdle /\ SummarizeIdle /\ ReportIdle /\ SchedIdle
    /\ x_rec \in Records /\ x_path \in DottedPaths /\ x_default \in Defaults
    /\ x_map = NotExtracted /\ x_obj = NotExtracted /\ x_cfg = NotExtracted

ExtractNext == GetAttrMapping \/ GetAttrObject \/ ConfigGet

ExtractSpec == ExtractInit /\ [][ExtractNext]_vars

\* The report API on one request.
ReportInit ==
    /\ driver = "report"
    /\ PipelineInit
    /\ ParseIdle /\ SummarizeIdle /\ ExtractIdle /\ SchedIdle
    /\ r_req \in ReportRequests /\ r_pc = "received" /\ r_status = 0
    /\ r_client = FALSE /\ r_sent = FALSE

ReportNext == ReportBegin \/ ReportSearch

ReportSpec == ReportInit /\ [][ReportNext]_vars

\* The scheduler from day 0 on, with what last_run.txt held before.
SchedInit ==
    /\ driver = "schedule"
    /\ PipelineInit
    /\ ParseIdle /\ SummarizeIdle /\ ExtractIdle /\ ReportIdle
    /\ s_day = 0 /\ s_checked = FALSE
    /\ s_target \in TargetDays
    /\ s_last \in InitialLastRuns
    /\ s_runs = IF s_last.state = "ok" THEN <<s_last.at>> ELSE <<>>
    /\ s_check = NoCheck

SchedNext == RunBiweeklyCheck \/ BiweeklyCheck \/ NextDay

SchedSpec == SchedInit /\ [][SchedNext]_vars

\* ================================================================= claims
Last(q) == q[Len(q)]

\* The probes of the candidate loop among the probes of the negotiation.
LoopProbes == SelectSeq(probeLog, LAMBDA e : e.cand >= 1)

\* C1: in a pipeline run no issue search is issued unless test_connection
\* has returned success before; when negotiation fails the run ends with a
\* failure result, fetch_tasks is never called and no summary or report is
\* produced.
C1_NoFetchBeforeAuth ==
    driver = "main" =>
        /\ (searched \/ f_pc # "idle") => authState = "AUTHENTICATED"
        /\ authState = "FAILED" =>
              /\ ~searched /\ f_pc = "idle"
              /\ ~summary_made /\ ~report_made
              /\ m_pc = "done" => rc = 1

C1_Witness ==
    /\ driver = "main" /\ m_pc = "done" /\ rc = 1
    /\ tc_pc = "done" /\ tc_ret = "False" /\ Len(LoopProbes) = Len(test_methods)
    /\ api_endpoint # NoVersion

\* C2: within one negotiation, once an identity check (the token-style check
\* or a candidate of the loop) has returned 200, no further probe is issued:
\* only the last probe of a negotiation can be a 200, and it ends the call
\* with True.
C2_NoProbeAfterSuccess ==
    /\ \A i \in 1..Len(probeLog) :
          IsSuccess(probeLog[i].res) => i = Len(probeLog)
    /\ (probeLog # <<>> /\ IsSuccess(Last(probeLog).res)) =>
          (tc_pc = "done" /\ tc_ret = "True")

C2_Witness ==
    /\ Len(LoopProbes) = 2 /\ IsSuccess(Last(probeLog).res)
    /\ Last(probeLog).cand = 2 /\ tc_pc = "done"

\* C3: when negotiation succeeds through the candidate loop, the recorded
\* session descriptor is that of the candidate that returned 200; a tracker
\* that answers 200 only to {API v2, Authorization header} ends
\* AUTHENTICATED with version 2, the version 2 root and transport 'header'.
C3_DescriptorOfWinner ==
    (tc_pc = "done" /\ tc_ret = "True" /\ LoopProbes # <<>>) =>
        LET c == Last(probeLog).cand IN
        /\ authState = "AUTHENTICATED"
        /\ api_version = test_methods[c].version
        /\ api_endpoint = test_methods[c].version
        /\ successful_auth_method = test_methods[c].auth_method
        /\ c = 4 => /\ api_version = 2 /\ api_endpoint = 2
                    /\ successful_auth_method = "header"

C3_Witness ==
    /\ tc_pc = "done" /\ tc_ret = "True" /\ Len(LoopProbes) = 4
    /\ Last(probeLog).cand = 4 /\ api_version = 2
    /\ successful_auth_method = "header"

\* Some part of the session descriptor is set.
DescriptorSet ==
    \/ api_version # NoVersion \/ api_endpoint # NoVersion
    \/ successful_auth_method # "unset"

\* C4: the session descriptor is set only if an identity probe of the
\* client has already returned 200.
C4_DescriptorOnlyAfter200 == DescriptorSet => probed200

\* C5: once AUTHENTICATED, no later operation on the client goes back to
\* PROBING, issues another identity probe or rewrites the session descriptor.
C5_NoReturnToProbing ==
    [][authState = "AUTHENTICATED" =>
          /\ authState' = "AUTHENTICATED"
          /\ Len(probeLog') <= Len(probeLog)
          /\ <<api_version, api_endpoint, successful_auth_method>>' =
                <<api_version, api_endpoint, successful_auth_method>>]_vars

\* C6: a candidate probe that returns a non-200 status or fails at network
\* level is followed by the probe of the next candidate; if no candidate
\* returns 200 in a negotiation that probed candidates, every candidate has
\* been probed exactly once, in order, and the result is FAILED.
C6_FailuresContinue ==
    /\ tc_pc = "loop" =>
          /\ Len(LoopProbes) = tc_idx - 1
          /\ tc_idx <= Len(test_methods)
          /\ \A i \in 1..Len(LoopProbes) :
                LoopProbes[i].cand = i /\ ~IsSuccess(LoopProbes[i].res)
    /\ (tc_pc = "done" /\ tc_ret = "False" /\ LoopProbes # <<>>) =>
          /\ authState = "FAILED"
          /\ Len(LoopProbes) = 4
          /\ \A i \in 1..4 :
                LoopProbes[i].cand = i /\ ~IsSuccess(LoopProbes[i].res)

C6_Witness ==
    /\ tc_pc = "done" /\ tc_ret = "False" /\ Len(LoopProbes) = 4
    /\ LoopProbes[1].res.status = 401
    /\ LoopProbes[2].res.kind = "ConnectTimeout"
    /\ LoopProbes[3].res.kind = "SSLError"
    /\ LoopProbes[4].res.kind = "ConnectionError"

\* C7: the FAILED result returned to the caller carries the probe history:
\* one {candidate, status/error} pair per probe, in probe order.
C7_FailedCarriesHistory ==
    (tc_pc = "done" /\ tc_ret = "False") => HistoryOf(tc_ret) = probeLog

CeilDiv(a, b) == (a + b - 1) \div b

\* C8: when every page of a scope is answered with 200 and the same total T,
\* the search issues exactly max(1, ceil(T/50)) requests, at the offsets
\* 0, 50, 100, ..., and returns every record that parses, in page order.
C8_PagesOfConstantTotal ==
    (f_pc = "ret" /\ lastKind \in {"ok", "parse_raise"} /\ constTotal >= 0) =>
        /\ Len(reqLog) = IF constTotal = 0 THEN 1 ELSE CeilDiv(constTotal, 50)
        /\ \A i \in 1..Len(reqLog) : reqLog[i].offset = 50 * (i - 1)
        /\ f_tasks \o s_tasks = expected

\* C9: the page loop of a scope terminates whatever the server answers, a
\* total that differs from page to page included: no scope is still paging
\* after the MaxPages requests that are followed.
C9_PagingTerminates ==
    f_pc = "page" => Len(reqLog) < MaxPages

\* C10: a failed page request (a non-200 answer, a timeout, another network
\* error) ends only its scope: the records of the pages retrieved before it
\* are kept and every later scope is still queried.
C10_ScopeFailureIsLocal ==
    /\ (f_pc = "ret" /\ lastKind \in {"http_error", "exception"}) =>
          f_tasks \o s_tasks = kept
    /\ f_pc = "done" => f_tasks = kept
    /\ (f_pc = "done" /\ api_endpoint # NoVersion) =>
          queried = 1..Len(projects)
    /\ f_pc \in {"page", "ret", "lib"} => (1..(f_scope - 1)) \subseteq queried

C10_Witness ==
    /\ f_pc = "done" /\ ~jira_instance /\ failed = {1} /\ queried = {1, 2}
    /\ Len(f_tasks) = 2 /\ f_tasks[1].scope = 1 /\ f_tasks[2].scope = 2

\* C11: fetch returns, with the issue list, one error for each scope that
\* failed and the count of the records dropped as unparseable.
C11_ErrorsReturned ==
    f_pc = "done" =>
        /\ FetchErrorsOf(f_tasks) = failed
        /\ DroppedCountOf(f_tasks) = served - Len(expected)

\* C12: the records of a page are parsed independently: whatever records
\* were served, every record that parses is emitted, in order, and no page
\* ends in an error of the parse.
C12_RecordsIndependent ==
    /\ lastKind # "parse_raise"
    /\ f_pc \in {"page", "ret"} => f_tasks \o s_tasks = expected
    /\ f_pc \in {"lib", "done"} => f_tasks = expected

\* The record was emitted.
Emitted(r) == r.out = "task"

\* C13: every record a parse function emits has key, title, status and
\* priority present, and a raw record from which one of the four cannot be
\* extracted (absent or null) yields no record.
C13_MandatoryFieldsPresent ==
    \A r \in {p_http, p_lib} :
        /\ Emitted(r) =>
              /\ r.task.key = "value" /\ r.task.summary = "value"
              /\ r.task.status = "value" /\ r.task.priority = "value"
        /\ (r # Pending /\ ~(/\ p_raw.key = "value" /\ p_raw.summary = "value"
                             /\ p_raw.status = "value" /\ p_raw.priority = "value"))
              => ~Emitted(r)

\* C14: the two parses of the same issue give timestamps of one kind (all
\* naive or all with an offset, created and updated alike), so that the
\* comparison of `updated` with the reference time is defined for the
\* records of either path.
C14_SameTimestampKind ==
    /\ (Emitted(p_http) /\ Emitted(p_lib)) =>
          /\ StampKind(p_http.task.updated) = StampKind(p_lib.task.updated)
          /\ StampKind(p_http.task.created) = StampKind(p_lib.task.created)
    /\ \A r \in {p_http, p_lib} :
          Emitted(r) =>
              /\ StampKind(r.task.created) = StampKind(r.task.updated)
              /\ Comparable(StampKind(r.task.updated), NowKind)

\* The sum of the counts of a histogram.
RECURSIVE SumValues(_)
SumValues(hist) ==
    IF DOMAIN hist = {} THEN 0
    ELSE LET k == CHOOSE x \in DOMAIN hist : TRUE
         IN  hist[k] + SumValues([x \in DOMAIN hist \ {k} |-> hist[x]])

Called == a_result # NotCalled

\* The positions, in the list handed in, of the tasks of a list of the result.
KeysOf(list) == {list[j].key : j \in 1..Len(list)}

\* C15: for every issue list, the counts of by_status sum to the number of
\* issues in the list.
C15_StatusCountsSum ==
    Called =>
        /\ "by_status" \in a_result.keys
        /\ SumValues(a_result.by_status) = Len(a_tasks)

\* C16: for every issue list, the counts of by_assignee sum to the number of
\* issues in the list, the issues without assignee being counted under
\* 'Unassigned'.
C16_AssigneeCountsSum ==
    Called =>
        /\ "by_assignee" \in a_result.keys
        /\ SumValues(a_result.by_assignee) = Len(a_tasks)
        /\ \A i \in 1..Len(a_tasks) :
              a_tasks[i].assignee = "" =>
                  /\ "Unassigned" \in DOMAIN a_result.by_assignee
                  /\ a_result.by_assignee["Unassigned"] =
                        Cardinality({j \in 1..Len(a_tasks) : a_tasks[j].assignee = ""})

\* C17: summarizing the empty list does not raise and yields a summary with
\* total_tasks 0, every histogram empty, both story-point totals 0 and both
\* recency lists empty.
C17_EmptyListSummary ==
    (Called /\ a_tasks = <<>>) =>
        /\ {"total_tasks", "by_status", "by_project", "by_assignee",
            "by_priority", "story_points", "timeline"} \subseteq a_result.keys
        /\ a_result.total_tasks = 0
        /\ a_result.by_status = EmptyHist /\ a_result.by_project = EmptyHist
        /\ a_result.by_assignee = EmptyHist /\ a_result.by_priority = EmptyHist
        /\ a_result.sp_total = 0 /\ a_result.sp_completed = 0
        /\ a_result.this_week = <<>> /\ a_result.last_week = <<>>

C19_RecencySplit ==
    (Called /\ a_tasks # <<>>) =>
        /\ {"total_tasks", "by_status", "by_project", "by_assignee",
            "by_priority", "timeline"} \subseteq a_result.keys
        /\ \A i \in 1..Len(a_tasks) :
              /\ i \in KeysOf(a_result.this_week) <=> a_tasks[i].updated >= a_now - 7
              /\ i \in KeysOf(a_result.last_week) <=>
                    (a_now - 14 <= a_tasks[i].updated /\ a_tasks[i].updated < a_now - 7)
              /\ ~(i \in KeysOf(a_result.this_week) /\ i \in KeysOf(a_result.last_week))
        /\ a_result.total_tasks = Len(a_tasks)
        /\ \A h \in {a_result.by_status, a_result.by_project,
                     a_result.by_assignee, a_result.by_priority} :
              SumValues(h) = Len(a_tasks)

\* A list of tasks is in descending order of `updated`.
Descending(list) ==
    \A i, j \in 1..Len(list) : i < j => list[i].updated >= list[j].updated

\* C20: in every returned summary the 'this week' list and the 'last week'
\* list are each in descending order of `updated`, whatever the order of the
\* input list.
C20_ListsSorted ==
    a_result.out = "summary" =>
        /\ Descending(a_result.this_week)
        /\ Descending(a_result.last_week)

C20_Witness ==
    /\ a_result.out = "summary"
    /\ Len(a_result.last_week) = 2
    /\ a_tasks[1].updated < a_tasks[2].updated
    /\ a_result.last_week[1].key = 2

\* The five buckets of the status classification.
Buckets == {"completed", "in_progress", "blocked", "todo", "other"}

\* C21: _categorize_status maps every status name to exactly one of the five
\* buckets: a name that the table lists to the bucket that lists it, every
\* other name to 'other'; the keys of by_status of a summary are among the
\* five buckets.
C21_ClassificationTotal ==
    /\ c_call # NoCall =>
          /\ c_call.group \in Buckets
          /\ \A i \in 1..Len(status_groups) :
                c_call.status \in status_groups[i].statuses =>
                    c_call.group = status_groups[i].group
          /\ c_call.status \notin ListedNames => c_call.group = "other"
    /\ DOMAIN a_result.by_status \subseteq Buckets
    /\ \A i \in 1..Len(a_tasks) :
          (a_result.out = "summary" /\ a_tasks[i].status \notin ListedNames) =>
              "other" \in DOMAIN a_result.by_status

C21_Witness == c_call.status = "done" /\ c_call.group = "other"

\* The sum of the estimates of the tasks of a list that are in `among`.
RECURSIVE SumPoints(_, _)
SumPoints(tasks, among) ==
    IF tasks = <<>> THEN 0
    ELSE (IF Head(tasks) \in among THEN Head(tasks).story_points ELSE 0)
         + SumPoints(Tail(tasks), among)

\* The tasks of the list whose status is in the group 'completed'.
CompletedTasks ==
    {a_tasks[i] : i \in {j \in 1..Len(a_tasks) :
                             a_tasks[j].status \in status_groups[1].statuses}}

\* C22: for every list of issues, story_points.total of the summary is the
\* sum of the estimates of the issues that have one, story_points.completed
\* is that sum over the issues in bucket 'completed', and an issue without
\* an estimate adds nothing and is counted in total_tasks.
C22_EstimateRollup ==
    (Called /\ a_tasks # <<>>) =>
        /\ {"story_points", "total_tasks"} \subseteq a_result.keys
        /\ a_result.sp_total = SumPoints(a_tasks, {a_tasks[i] : i \in 1..Len(a_tasks)})
        /\ a_result.sp_completed = SumPoints(a_tasks, CompletedTasks)
        /\ a_result.total_tasks = Len(a_tasks)

\* C23: two calls of summarize_tasks on the same list of issues return the
\* same summary; the moment of the call has no influence on it.
C23_Deterministic == a_first # NotCalled => a_result = a_first

\* The path asked for leads to a value of the record.
PathPresent == NodeAt(x_rec, x_path) # "absent"

\* Some step of the path asked for is not exposed.
PathMissing == ~PathPresent

\* C24: no extractor raises, and when some step of the path is not exposed
\* by the current value (a field is absent, or the value is a scalar or
\* null) the result is the default handed in.
C24_DefaultNeverRaises ==
    \A r \in {x_map, x_obj, x_cfg} :
        r # NotExtracted =>
            /\ r.out = "value"
            /\ PathMissing => r.val = x_default

\* C25: for a path that is fully present in the record safe_get_attr
\* returns the nested value, and the record as nested dicts and the record
\* as nested objects give the same result for every path.
C25_MappingLikeObject ==
    /\ \A r \in {x_map, x_obj} :
          (r # NotExtracted /\ PathPresent) => r = Returned(NodeAt(x_rec, x_path))
    /\ (x_map # NotExtracted /\ x_obj # NotExtracted) => x_map = x_obj

\* The run was given no project scope, or no configuration, or one whose
\* base URL, username or token is missing or empty.
LacksParameter ==
    \/ projects = <<>>
    \/ ~config_exists
    \/ \E k \in {"base_url", "username", "api_token"} : jira_config[k] \in {"absent", "empty"}

\* C26: a pipeline run that lacks a required parameter ends at once with the
\* error code and has made no network call: no identity probe and no search
\* request.
C26_NoNetworkWithoutParameters ==
    (driver = "main" /\ m_pc # "start" /\ LacksParameter) =>
        /\ m_pc = "done" /\ rc = 1
        /\ authState = "UNPROBED" /\ probeLog = <<>> /\ ~probed200
        /\ ~searched /\ reqLog = <<>> /\ queried = {}
        /\ ~exists /\ ~summary_made /\ ~report_made

\* C28: when a username and a secret were handed to the client and the
\* token-style identity check has failed, a negotiation that returns False
\* has probed the candidates of the loop, whatever other credentials (an
\* OAuth configuration) were handed in as well.
C28_PairReachesCandidates ==
    (exists /\ username /\ api_token /\ tc_pc = "done" /\ tc_ret = "False") =>
        /\ authState = "FAILED"
        /\ {LoopProbes[i].cand : i \in 1..Len(LoopProbes)} = 1..Len(test_methods)

\* C29: the candidate loop probes in the order basic/v3, basic/v2,
\* header/v3, header/v2 and records the first candidate that returns 200;
\* every search request uses the recorded API root and the recorded
\* transport: the auth parameter for 'basic', the Authorization header and
\* no auth parameter for 'header'.
C29_OrderAndTransport ==
    /\ <<test_methods[1].auth_method, test_methods[1].version>> = <<"basic", 3>>
    /\ <<test_methods[2].auth_method, test_methods[2].version>> = <<"basic", 2>>
    /\ <<test_methods[3].auth_method, test_methods[3].version>> = <<"header", 3>>
    /\ <<test_methods[4].auth_method, test_methods[4].version>> = <<"header", 2>>
    /\ \A i \in 1..Len(LoopProbes) :
          /\ LoopProbes[i].cand = i
          /\ IsSuccess(LoopProbes[i].res) =>
                /\ \A j \in 1..(i - 1) : ~IsSuccess(LoopProbes[j].res)
                /\ api_endpoint = test_methods[i].version
                /\ successful_auth_method = test_methods[i].auth_method
    /\ \A i \in 1..Len(reqLog) :
          /\ reqLog[i].root = api_endpoint
          /\ successful_auth_method = "basic" => reqLog[i].auth
          /\ successful_auth_method = "header" => (reqLog[i].hdr /\ ~reqLog[i].auth)

C29_Witness ==
    /\ Len(reqLog) = 2 /\ successful_auth_method = "header" /\ api_endpoint = 2
    /\ reqLog[2].hdr /\ ~reqLog[2].auth /\ reqLog[2].root = 2

\* A date parameter is written as YYYY-MM-DD.
InDateFormat(date) == date.form = "padded"

\* The request's start_date is after its end_date.
StartAfterEnd(req) ==
    /\ StrptimeAccepts(req.start_date) /\ StrptimeAccepts(req.end_date)
    /\ req.start_date.day > req.end_date.day

\* C27: a request whose start_date or end_date is not in YYYY-MM-DD format,
\* or whose start_date is after its end_date, is answered with 400 before a
\* Jira client is created and before anything is sent to the tracker.
C27_BadDatesRejected ==
    (r_pc \notin {"idle", "received"}
        /\ (~InDateFormat(r_req.start_date) \/ ~InDateFormat(r_req.end_date)
            \/ StartAfterEnd(r_req))) =>
        /\ r_pc = "done" /\ r_status = 400
        /\ ~r_client /\ ~r_sent

\* C30: under the bi-weekly schedule a daily check starts the update only on
\* the configured weekday and, when last_run.txt held a readable timestamp,
\* only if at least 13 whole days had elapsed since it; two consecutive
\* recorded runs are never less than 13 days apart; and a check that skips
\* leaves last_run.txt as it was.
C30_BiweeklyCadence ==
    /\ (s_check.done /\ s_check.started) =>
          /\ s_target \in DOMAIN day_map
          /\ Weekday(s_check.at) = day_map[s_target]
          /\ s_check.before.state = "ok" =>
                ElapsedDays(s_check.at, s_check.before.at) >= 13
    /\ \A i \in 1..(Len(s_runs) - 1) :
          ElapsedDays(s_runs[i + 1], s_runs[i]) >= 13
    /\ (s_check.done /\ ~s_check.started) => s_last = s_check.before

\* Two runs recorded by the checks themselves, exactly 13 whole days apart,
\* the second started against a readable timestamp, and after it a check on
\* the configured weekday that skipped.
C30_Witness ==
    /\ Len(s_runs) >= 2
    /\ s_last.state = "ok" /\ s_last.at = s_runs[Len(s_runs)]
    /\ ElapsedDays(s_runs[Len(s_runs)], s_runs[Len(s_runs) - 1]) = 13
    /\ s_runs[Len(s_runs) - 1].day >= 0
    /\ s_check.done /\ ~s_check.started
    /\ Weekday(s_check.at) = day_map[s_target]
====
